---- MODULE Spec2Model ----
(***************************************************************************)
(* Model of the logging package github.com/Brian44913/logging.             *)
(*                                                                         *)
(* Strings are sequences of one-character strings, so that TrimSpace,      *)
(* ToUpper, Split, TrimSuffix and the byte-wise order used by sort.Strings *)
(* are computed and not assumed.  The full-width colon is the single       *)
(* symbol "FWCOLON"; it sorts above every ASCII character, as its first    *)
(* UTF-8 byte does.                                                        *)
(***************************************************************************)
EXTENDS Integers, Sequences, FiniteSets, TLC

VARIABLES cfg,      \* the package-level config (var cfg)
          l,        \* the config of the Logger instance, or NoLogger
          last,     \* the operation that ran last, with its inputs
          ret,      \* the error that operation returned ("nil" for none)
          sink,     \* the lines that operation wrote, each with its writers
          twin,     \* what the Logger returned and wrote, where it is driven
                    \* in lockstep with the package-level logger
          files,    \* the file handles opened so far, where they are followed
          pc        \* the setter and the log call in progress, where calls
                    \* run concurrently

vars == <<cfg, l, last, ret, sink, twin, files, pc>>

\* ------------------------------------------------------------------------
\* Bounds
\* ------------------------------------------------------------------------
MaxTokens == 1     \* tokens joined by "+" in a generated destination spec
MaxPairs == 2      \* key/value pairs in a generated argument list
MaxRest == 3       \* arguments after the message in a free argument list

\* ------------------------------------------------------------------------
\* Strings
\* ------------------------------------------------------------------------
Alphabet ==
  <<" ", "\"", "+", ",", "0", "1", "8", ":",
    "A", "B", "D", "E", "F", "G", "I", "J", "N", "O", "R", "T", "U", "W", "X",
    "[", "]",
    "a", "b", "c", "d", "e", "f", "g", "i", "j", "k", "l", "m", "n", "o",
    "p", "r", "s", "t", "u", "v", "w", "x", "y", "z",
    "{", "}", "FWCOLON">>

Lowers == <<"a", "b", "d", "e", "f", "g", "i", "j", "n", "o", "r", "t", "u", "w", "x">>
Uppers == <<"A", "B", "D", "E", "F", "G", "I", "J", "N", "O", "R", "T", "U", "W", "X">>

Chars == {Alphabet[i] : i \in 1..Len(Alphabet)}

\* the rank of each character in byte order
OrdOf == [c \in Chars |-> CHOOSE i \in 1..Len(Alphabet) : Alphabet[i] = c]

UpperOf ==
  [c \in Chars |->
     IF \E i \in 1..Len(Lowers) : Lowers[i] = c
     THEN Uppers[CHOOSE i \in 1..Len(Lowers) : Lowers[i] = c]
     ELSE c]

LowerOf ==
  [c \in Chars |->
     IF \E i \in 1..Len(Uppers) : Uppers[i] = c
     THEN Lowers[CHOOSE i \in 1..Len(Uppers) : Uppers[i] = c]
     ELSE c]

ToUpper(s) == [i \in 1..Len(s) |-> UpperOf[s[i]]]
ToLower(s) == [i \in 1..Len(s) |-> LowerOf[s[i]]]

RECURSIVE TrimLeft(_)
TrimLeft(s) == IF s # <<>> /\ Head(s) = " " THEN TrimLeft(Tail(s)) ELSE s

RECURSIVE TrimRight(_)
TrimRight(s) ==
  IF s # <<>> /\ s[Len(s)] = " " THEN TrimRight(SubSeq(s, 1, Len(s) - 1)) ELSE s

TrimSpace(s) == TrimRight(TrimLeft(s))

TrimSuffix(s, c) ==
  IF s # <<>> /\ s[Len(s)] = c THEN SubSeq(s, 1, Len(s) - 1) ELSE s

\* strings.Split(s, "+"): the pieces between the separators, empty ones kept
RECURSIVE SplitPlus(_, _)
SplitPlus(s, cur) ==
  IF s = <<>> THEN <<cur>>
  ELSE IF Head(s) = "+" THEN <<cur>> \o SplitPlus(Tail(s), <<>>)
  ELSE SplitPlus(Tail(s), Append(cur, Head(s)))

\* byte-wise order of sort.Strings
RECURSIVE StrLess(_, _)
StrLess(a, b) ==
  IF b = <<>> THEN FALSE
  ELSE IF a = <<>> THEN TRUE
  ELSE IF Head(a) = Head(b) THEN StrLess(Tail(a), Tail(b))
  ELSE OrdOf[Head(a)] < OrdOf[Head(b)]

Range(s) == {s[i] : i \in 1..Len(s)}

\* ------------------------------------------------------------------------
\* Levels and formats
\* ------------------------------------------------------------------------
DEBUG == 0
INFO == 1
WARN == 2
ERROR == 3

JSON == 0
TEXT == 1

sDEBUG == <<"D", "E", "B", "U", "G">>
sINFO == <<"I", "N", "F", "O">>
sWARN == <<"W", "A", "R", "N">>
sWARNING == <<"W", "A", "R", "N", "I", "N", "G">>
sERROR == <<"E", "R", "R", "O", "R">>

LevelString(lv) ==
  CASE lv = DEBUG -> sDEBUG
    [] lv = INFO -> sINFO
    [] lv = WARN -> sWARN
    [] lv = ERROR -> sERROR
    [] OTHER -> sINFO

\* a switch that has no case for the empty name
levelSwitchStrict(u) ==
  CASE u = sDEBUG -> [lv |-> DEBUG, err |-> "nil"]
    [] u = sINFO -> [lv |-> INFO, err |-> "nil"]
    [] u = sWARN \/ u = sWARNING -> [lv |-> WARN, err |-> "nil"]
    [] u = sERROR -> [lv |-> ERROR, err |-> "nil"]
    [] OTHER -> [lv |-> INFO, err |-> "unknown log level"]

\* the switch of parseLevel on the trimmed, upper-cased name u
levelSwitch(u) ==
  CASE u = sDEBUG -> [lv |-> DEBUG, err |-> "nil"]
    [] u = sINFO \/ u = <<>> -> [lv |-> INFO, err |-> "nil"]
    [] u = sWARN \/ u = sWARNING -> [lv |-> WARN, err |-> "nil"]
    [] u = sERROR -> [lv |-> ERROR, err |-> "nil"]
    [] OTHER -> [lv |-> INFO, err |-> "unknown log level"]

parseLevel(s) == levelSwitch(ToUpper(TrimSpace(s)))

sjson == <<"j", "s", "o", "n">>
stext == <<"t", "e", "x", "t">>
splain == <<"p", "l", "a", "i", "n">>

\* the switch of parseFormat on the trimmed, lower-cased name u
formatSwitch(u) ==
  CASE u = <<>> \/ u = sjson -> [fm |-> JSON, err |-> "nil"]
    [] u = stext \/ u = splain -> [fm |-> TEXT, err |-> "nil"]
    [] OTHER -> [fm |-> JSON, err |-> "unknown log fmt"]

parseFormat(s) == formatSwitch(ToLower(TrimSpace(s)))

\* ------------------------------------------------------------------------
\* Destinations
\* ------------------------------------------------------------------------
outStdout == "stdout"
outStderr == "stderr"
outFile == "file"

sstdout == <<"s", "t", "d", "o", "u", "t">>
sstderr == <<"s", "t", "d", "e", "r", "r">>
sfile == <<"f", "i", "l", "e">>

NoFilePath == "GOLOG_OUTPUT includes 'file' but GOLOG_FILE is empty"

\* the loop over the parts of a destination spec; out is the map so far and
\* keep tells whether an unknown token keeps what was parsed before it (the
\* code does not: it returns stderr alone)
RECURSIVE partsLoop(_, _, _)
RECURSIVE partSwitch(_, _, _, _)
partsLoop(parts, out, keep) ==
  IF parts = <<>> THEN [out |-> out, err |-> "nil"]
  ELSE partSwitch(ToLower(TrimSpace(Head(parts))), Tail(parts), out, keep)
partSwitch(p, rest, out, keep) ==
  CASE p = sstdout -> partsLoop(rest, out \cup {outStdout}, keep)
    [] p = sstderr -> partsLoop(rest, out \cup {outStderr}, keep)
    [] p = sfile -> partsLoop(rest, out \cup {outFile}, keep)
    [] p = <<>> -> partsLoop(rest, out, keep)
    [] OTHER -> [out |-> (IF keep THEN out ELSE {}) \cup {outStderr},
                 err |-> "unknown GOLOG_OUTPUT part"]

\* a loop that keeps the destinations parsed before the unknown token
parsePartsKeep(parts) == partsLoop(parts, {}, TRUE)

parseParts(parts) == partsLoop(parts, {}, FALSE)

\* a test that drops the file it reports
fileCheckDrop(r, fileEnv) ==
  IF r.err = "nil" /\ outFile \in r.out /\ TrimSpace(fileEnv) = <<>>
  THEN [out |-> r.out \ {outFile}, err |-> NoFilePath]
  ELSE r

\* the test that follows the loop: the file is selected without a path
fileCheck(r, fileEnv) ==
  IF r.err = "nil" /\ outFile \in r.out /\ TrimSpace(fileEnv) = <<>>
  THEN [out |-> r.out, err |-> NoFilePath]
  ELSE r

\* a branch that adds stderr to the file
emptySpecWithStderr(fileEnv) ==
  IF TrimSpace(fileEnv) # <<>>
  THEN [out |-> {outFile, outStderr}, err |-> "nil"]
  ELSE [out |-> {outStderr}, err |-> "nil"]

\* the branch of parseOutput for the empty spec
emptySpec(fileEnv) ==
  IF TrimSpace(fileEnv) # <<>>
  THEN [out |-> {outFile}, err |-> "nil"]
  ELSE [out |-> {outStderr}, err |-> "nil"]

\* parseOutput on the trimmed spec s
parseTrimmed(s, fileEnv) ==
  IF s = <<>> THEN emptySpec(fileEnv)
  ELSE fileCheck(parseParts(SplitPlus(s, <<>>)), fileEnv)

parseOutput(outputEnv, fileEnv) == parseTrimmed(TrimSpace(outputEnv), fileEnv)

\* ------------------------------------------------------------------------
\* The configuration and the rebuild of the fan-out writer.
\* writer is the member list of the io.MultiWriter; closer tells whether a
\* closer of an opened file is registered.  ok is the outcome of os.OpenFile;
\* where the rebuild does not open the file it is TRUE.
\* ------------------------------------------------------------------------
\* the rebuild calls os.OpenFile
Opens(c) == outFile \in c.output /\ TrimSpace(c.file) # <<>>

WritersOf(c, ok) ==
  (IF outStdout \in c.output THEN <<"stdout">> ELSE <<>>)
  \o (IF outStderr \in c.output THEN <<"stderr">> ELSE <<>>)
  \o (IF Opens(c) /\ ok THEN <<"file">> ELSE <<>>)

\* an end of the rebuild without the fallback to stderr
withWritersNoFallback(c, ws) ==
  [c EXCEPT !.closer = ("file" \in Range(ws)), !.writer = ws]

\* the end of the rebuild: the fallback, and the writer and closer stored
withWriters(c, ws) ==
  [c EXCEPT !.closer = ("file" \in Range(ws)),
            !.writer = IF Len(ws) = 0 THEN <<"stderr">> ELSE ws]

rebuildWriterLocked(c, ok) == withWriters(c, WritersOf(c, ok))

Logger_rebuildWriterLocked(c, ok) == withWriters(c, WritersOf(c, ok))

\* ------------------------------------------------------------------------
\* Setters, as functions of the configuration they are applied to.  Each
\* yields the configuration it leaves and the error it returns.
\* ------------------------------------------------------------------------
\* SetLogLevel after parseLevel yielded r
levelSet(c, r) ==
  IF r.err # "nil" THEN [c |-> c, err |-> r.err]
  ELSE [c |-> [c EXCEPT !.level = r.lv], err |-> "nil"]

\* SetLogFmt after parseFormat yielded r
fmtSet(c, r) ==
  IF r.err # "nil" THEN [c |-> c, err |-> r.err]
  ELSE [c |-> [c EXCEPT !.fmt = r.fm], err |-> "nil"]

\* SetOutput after parseOutput yielded r
outputSet(c, r, ok) ==
  [c |-> rebuildWriterLocked([c EXCEPT !.output = r.out], ok), err |-> r.err]

\* SetLogFile after the trimmed path is stored in c1
fileSet(c1, ok) ==
  [c |-> rebuildWriterLocked(c1, ok),
   err |-> IF outFile \in c1.output /\ c1.file = <<>>
           THEN "SetLogFile: output includes file but path is empty"
           ELSE "nil"]

\* a SetLogFile that stores the path p after the writer c1 was rebuilt
fileSetLate(c1, p) ==
  [c |-> [c1 EXCEPT !.file = p],
   err |-> IF outFile \in c1.output /\ p = <<>>
           THEN "SetLogFile: output includes file but path is empty"
           ELSE "nil"]

\* ReloadFromEnv after the three parsers yielded r1, r2, r3
reloadWith(c, r1, r2, r3, file, ok) ==
  [c |-> rebuildWriterLocked(
           [c EXCEPT !.level = IF r1.err # "nil" THEN INFO ELSE r1.lv,
                     !.fmt = IF r2.err # "nil" THEN JSON ELSE r2.fm,
                     !.file = file,
                     !.output = r3.out], ok),
   err |-> IF r1.err # "nil" /\ r3.err # "nil" THEN "level; output"
           ELSE IF r1.err # "nil" THEN r1.err
           ELSE IF r2.err # "nil" THEN r2.err
           ELSE r3.err]

doSetLogLevel(c, level) == levelSet(c, parseLevel(level))

doSetLogFmt(c, fmtStr) == fmtSet(c, parseFormat(fmtStr))

doSetOutput(c, outputStr, ok) ==
  outputSet(c, parseOutput(outputStr, c.file), ok)

\* a SetLogFile that rebuilds the writer before it stores the path
doSetLogFileLate(c, path, ok) ==
  fileSetLate(rebuildWriterLocked(c, ok), TrimSpace(path))

doSetLogFile(c, path, ok) == fileSet([c EXCEPT !.file = TrimSpace(path)], ok)

doReloadFromEnv(c, envLevel, envFmt, envOut, envFile, ok) ==
  reloadWith(c, parseLevel(envLevel), parseFormat(envFmt),
             parseOutput(envOut, envFile), TrimSpace(envFile), ok)

\* a Logger.SetLogFile that returns nil where the package returns the error
Logger_fileSetSilent(c1, ok) ==
  [c |-> Logger_rebuildWriterLocked(c1, ok), err |-> "nil"]

Logger_fileSet(c1, ok) ==
  [c |-> Logger_rebuildWriterLocked(c1, ok),
   err |-> IF outFile \in c1.output /\ c1.file = <<>>
           THEN "SetLogFile: output includes file but path is empty"
           ELSE "nil"]

Logger_outputSet(c, r, ok) ==
  [c |-> Logger_rebuildWriterLocked([c EXCEPT !.output = r.out], ok),
   err |-> r.err]

Logger_doSetLogLevel(c, level) == levelSet(c, parseLevel(level))

Logger_doSetLogFmt(c, fmtStr) == fmtSet(c, parseFormat(fmtStr))

Logger_doSetOutput(c, out, ok) ==
  Logger_outputSet(c, parseOutput(out, c.file), ok)

Logger_doSetLogFile(c, path, ok) ==
  Logger_fileSet([c EXCEPT !.file = TrimSpace(path)], ok)

\* New after the three parsers yielded r1, r2, r3
newWith(r1, r2, r3, file, ok) ==
  [c |-> Logger_rebuildWriterLocked(
           [level |-> r1.lv, fmt |-> r2.fm, output |-> r3.out, file |-> file,
            writer |-> <<>>, closer |-> FALSE], ok),
   err |-> IF r1.err # "nil" THEN r1.err
           ELSE IF r2.err # "nil" THEN r2.err
           ELSE r3.err]

\* New(opts); opts is <<Level, Fmt, Output, File>>
doNew(opts, ok) ==
  newWith(parseLevel(IF TrimSpace(opts[1]) = <<>> THEN sINFO ELSE opts[1]),
          parseFormat(IF TrimSpace(opts[2]) = <<>> THEN sjson ELSE opts[2]),
          parseOutput(opts[3], opts[4]), TrimSpace(opts[4]), ok)

\* the package-level variables before init() runs
DefaultCfg ==
  [level |-> INFO, fmt |-> JSON, output |-> {outStderr}, file |-> <<>>,
   writer |-> <<>>, closer |-> FALSE]

\* no Logger has been constructed
NoLogger == [made |-> FALSE, cfg |-> DefaultCfg]

\* no Logger runs beside the package-level logger
NoTwin == [ret |-> "nil", sink |-> <<>>]

\* the configuration the behaviour drives
Active == IF l.made THEN l.cfg ELSE cfg

\* no file handle has been opened
NoFiles == [closes |-> <<>>, own |-> 0, out |-> 0]

\* no setter holds the lock and no log call is between its filter and its
\* write
Idle ==
  [set |-> "idle", r |-> [c |-> DefaultCfg, err |-> "nil"], closed |-> 0,
   op |-> "init", in |-> <<>>, ok |-> TRUE, log |-> "idle"]

\* ------------------------------------------------------------------------
\* Argument values.  A value is [t, v, m]: t its dynamic type, v its text
\* (the string, the digits of an int, the message of an error, the text of a
\* parsed JSON value), m its members (the entries [k, val] of a
\* map[string]any in iteration order, the elements of a list).
\*   "str"  string            "int"  int          "err"  error
\*   "map"  map[string]any    "chan" a value encoding/json cannot encode
\*   "json" the value json.Unmarshal yields for the text v
\*   "list" []any             "nil"  a nil error
\* ------------------------------------------------------------------------
StrV(s) == [t |-> "str", v |-> s, m |-> <<>>]
IntV(s) == [t |-> "int", v |-> s, m |-> <<>>]
ErrV(s) == [t |-> "err", v |-> s, m |-> <<>>]
MapV(es) == [t |-> "map", v |-> <<>>, m |-> es]
ChanV == [t |-> "chan", v |-> <<>>, m |-> <<>>]
ParsedV(s) == [t |-> "json", v |-> s, m |-> <<>>]
ListV(xs) == [t |-> "list", v |-> <<>>, m |-> xs]
Nil == [t |-> "nil", v |-> <<>>, m |-> <<>>]

\* json.Valid for texts without inner white space and without escapes:
\* integers, true, false, null, strings, arrays and objects.  Each parser
\* takes the position it starts at and yields the position after the value
\* it read, or 0.
IsDigit(c) == c \in {"0", "1", "8"}

Matches(s, i, w) ==
  /\ i + Len(w) - 1 <= Len(s)
  /\ SubSeq(s, i, i + Len(w) - 1) = w

RECURSIVE ParseDigits(_, _)
ParseDigits(s, i) ==
  IF i <= Len(s) /\ IsDigit(s[i]) THEN ParseDigits(s, i + 1) ELSE i

ParseNum(s, i) == IF s[i] = "0" THEN i + 1 ELSE ParseDigits(s, i + 1)

RECURSIVE ParseStrBody(_, _)
ParseStrBody(s, i) ==
  IF i > Len(s) THEN 0
  ELSE IF s[i] = "\"" THEN i + 1
  ELSE ParseStrBody(s, i + 1)

ParseStr(s, i) ==
  IF i <= Len(s) /\ s[i] = "\"" THEN ParseStrBody(s, i + 1) ELSE 0

RECURSIVE ParseVal(_, _)
RECURSIVE ParseElems(_, _)
RECURSIVE ParseMembers(_, _)
RECURSIVE AfterElem(_, _)
RECURSIVE AfterKey(_, _)
RECURSIVE AfterMember(_, _)

ParseVal(s, i) ==
  IF i > Len(s) THEN 0
  ELSE IF s[i] = "\"" THEN ParseStr(s, i)
  ELSE IF IsDigit(s[i]) THEN ParseNum(s, i)
  ELSE IF Matches(s, i, <<"t", "r", "u", "e">>) THEN i + 4
  ELSE IF Matches(s, i, <<"f", "a", "l", "s", "e">>) THEN i + 5
  ELSE IF Matches(s, i, <<"n", "u", "l", "l">>) THEN i + 4
  ELSE IF s[i] = "[" THEN
         IF i + 1 <= Len(s) /\ s[i + 1] = "]" THEN i + 2
         ELSE ParseElems(s, i + 1)
  ELSE IF s[i] = "{" THEN
         IF i + 1 <= Len(s) /\ s[i + 1] = "}" THEN i + 2
         ELSE ParseMembers(s, i + 1)
  ELSE 0

\* the elements of an array from position i
ParseElems(s, i) == AfterElem(s, ParseVal(s, i))
AfterElem(s, j) ==
  IF j = 0 \/ j > Len(s) THEN 0
  ELSE IF s[j] = "," THEN ParseElems(s, j + 1)
  ELSE IF s[j] = "]" THEN j + 1
  ELSE 0

\* the members of an object from position i
ParseMembers(s, i) == AfterKey(s, ParseStr(s, i))
AfterKey(s, j) ==
  IF j = 0 \/ j > Len(s) THEN 0
  ELSE IF s[j] # ":" THEN 0
  ELSE AfterMember(s, ParseVal(s, j + 1))
AfterMember(s, k) ==
  IF k = 0 \/ k > Len(s) THEN 0
  ELSE IF s[k] = "," THEN ParseMembers(s, k + 1)
  ELSE IF s[k] = "}" THEN k + 1
  ELSE 0

JSONValid(s) == ParseVal(s, 1) = Len(s) + 1

\* ------------------------------------------------------------------------
\* parseArgs
\* ------------------------------------------------------------------------
EmptyMap == [k \in {} |-> Nil]

Put(f, k, val) == [x \in DOMAIN f \cup {k} |-> IF x = k THEN val ELSE f[x]]

normalizeKey(k) ==
  TrimSuffix(TrimSuffix(TrimSpace(k), ":"), "FWCOLON")

IsJSONText(x) == x.t = "str" /\ JSONValid(TrimSpace(x.v))

\* a loop that also leaves the JSON text in the list that is paired
kvOfKeep(rest) == rest

\* the arguments that are not JSON text, in order
RECURSIVE kvOf(_)
kvOf(rest) ==
  IF rest = <<>> THEN <<>>
  ELSE IF IsJSONText(Head(rest)) THEN kvOf(Tail(rest))
  ELSE <<Head(rest)>> \o kvOf(Tail(rest))

\* the trimmed texts of the arguments that are JSON text, in order
RECURSIVE dataOf(_)
dataOf(rest) ==
  IF rest = <<>> THEN <<>>
  ELSE IF IsJSONText(Head(rest))
       THEN <<TrimSpace(Head(rest).v)>> \o dataOf(Tail(rest))
  ELSE dataOf(Tail(rest))

\* a test that takes the parity of the arguments before JSON text is removed
HasTrailingErrRawParity(rest, kv) ==
  /\ Len(kv) > 0
  /\ kv[Len(kv)].t = "err"
  /\ Len(rest) % 2 = 1

\* the trailing-error test: rest are the arguments after the message, kv
\* those of them that are not JSON text
HasTrailingErr(rest, kv) ==
  /\ Len(kv) > 0
  /\ kv[Len(kv)].t = "err"
  /\ Len(kv) % 2 = 1

\* the pairing loop from index i; r is [fields, extra] so far
RECURSIVE pairUp(_, _, _)
pairUp(kv, i, r) ==
  IF i + 1 > Len(kv) THEN r
  ELSE IF kv[i].t # "str"
       THEN pairUp(kv, i + 2,
                   [r EXCEPT !.extra = r.extra \o <<kv[i], kv[i + 1]>>])
  ELSE pairUp(kv, i + 2,
              [r EXCEPT !.fields = Put(r.fields, normalizeKey(kv[i].v), kv[i + 1])])

\* the copy of a map[string]any into fields, entry by entry
RECURSIVE copyMap(_, _)
copyMap(es, f) ==
  IF es = <<>> THEN f
  ELSE copyMap(Tail(es), Put(f, normalizeKey(Head(es).k), Head(es).val))

\* an end of parseArgs that forgets the element left without a partner
pairedNoDangling(msg, r, kv, data, e) ==
  [msg |-> msg, fields |-> r.fields, data |-> data, errField |-> e,
   extra |-> r.extra]

\* the result of parseArgs once the pairing loop has yielded r
paired(msg, r, kv, data, e) ==
  [msg |-> msg, fields |-> r.fields, data |-> data, errField |-> e,
   extra |-> IF Len(kv) % 2 = 1 THEN r.extra \o <<kv[Len(kv)]>> ELSE r.extra]

\* parseArgs from the pairing loop on
pairing(msg, kv, data, e) ==
  paired(msg, pairUp(kv, 1, [fields |-> EmptyMap, extra |-> <<>>]), kv, data, e)

\* parseArgs from the trailing-error test on
detach(msg, rest, kv, data) ==
  IF HasTrailingErr(rest, kv)
  THEN pairing(msg, SubSeq(kv, 1, Len(kv) - 1), data, kv[Len(kv)])
  ELSE pairing(msg, kv, data, Nil)

\* parseArgs for a message and the arguments after it
classify(msg, rest) ==
  IF Len(rest) = 1 /\ rest[1].t = "map"
  THEN [msg |-> msg, fields |-> copyMap(rest[1].m, EmptyMap), data |-> <<>>,
        errField |-> Nil, extra |-> <<>>]
  ELSE detach(msg, rest, kvOf(rest), dataOf(rest))

parseArgs(args) ==
  IF Len(args) = 0
  THEN [msg |-> StrV(<<>>), fields |-> EmptyMap, data |-> <<>>,
        errField |-> Nil, extra |-> <<>>]
  ELSE classify(args[1], Tail(args))

\* ------------------------------------------------------------------------
\* JSON output
\* ------------------------------------------------------------------------
sts == <<"t", "s">>
slv == <<"l", "v">>
scaller == <<"c", "a", "l", "l", "e", "r">>
smsg == <<"m", "s", "g">>
serr == <<"e", "r", "r">>
sdata == <<"d", "a", "t", "a">>
sargs == <<"a", "r", "g", "s">>

\* the clock and the call stack are outside this model: the time stamp and
\* the call site are fixed texts
Now == <<"T", "S">>
resolveCaller == <<"m", "a", "i", "n", ":", "1">>

mustUnmarshalAny(s) == IF JSONValid(s) THEN ParsedV(s) ELSE StrV(s)

\* parseJSONIfString on the trimmed text s
promoteText(s) == IF JSONValid(s) THEN mustUnmarshalAny(s) ELSE StrV(s)

parseJSONIfString(x) == IF x.t # "str" THEN x ELSE promoteText(TrimSpace(x.v))

RECURSIVE mapEach(_)
mapEach(data) ==
  IF data = <<>> THEN <<>>
  ELSE <<mustUnmarshalAny(Head(data))>> \o mapEach(Tail(data))

\* extraMap after the loop over fields
promoteAll(f) == [k \in DOMAIN f |-> parseJSONIfString(f[k])]

\* extraMap after the raw-data blobs are stored under the key data
withData(e, data) ==
  IF Len(data) = 1 THEN Put(e, sdata, mustUnmarshalAny(data[1]))
  ELSE IF Len(data) > 1 THEN Put(e, sdata, ListV(mapEach(data)))
  ELSE e

\* extraMap after the leftovers are stored under the key args
withArgs(e, extra) ==
  IF Len(extra) > 0 THEN Put(e, sargs, ListV(extra)) ELSE e

\* buildJSONEntry once parseArgs has yielded p
entryOf(lv, caller, p) ==
  [Ts |-> Now, Lv |-> LevelString(lv), Caller |-> caller,
   Msg |-> parseJSONIfString(p.msg),
   Extra |-> withArgs(withData(promoteAll(p.fields), p.data), p.extra),
   Err |-> IF p.errField # Nil THEN StrV(p.errField.v) ELSE Nil]

\* Extra holds the fields and, under the keys data and args, the raw-data
\* blobs and the leftovers
buildJSONEntry(lv, caller, args) == entryOf(lv, caller, parseArgs(args))

\* json.Marshal fails on a value it cannot encode, at any depth
RECURSIVE Marshalable(_)
Marshalable(x) ==
  CASE x.t = "chan" -> FALSE
    [] x.t = "list" -> \A i \in 1..Len(x.m) : Marshalable(x.m[i])
    [] x.t = "map" -> \A i \in 1..Len(x.m) : Marshalable(x.m[i].val)
    [] OTHER -> TRUE

Reserved == {sts, slv, scaller, smsg, serr}

\* the least and the greatest string of a set in byte order
MinOf(S) == CHOOSE x \in S : \A y \in S \ {x} : StrLess(x, y)
MaxOf(S) == CHOOSE x \in S : \A y \in S \ {x} : StrLess(y, x)

RECURSIVE SortStrings(_)
RECURSIVE SortStringsDesc(_)
RECURSIVE ascFrom(_, _)
RECURSIVE descFrom(_, _)
ascFrom(S, mn) == <<mn>> \o SortStrings(S \ {mn})
descFrom(S, mx) == <<mx>> \o SortStringsDesc(S \ {mx})

\* a key list left in an order that is not sorted (largest key first)
SortStringsDesc(S) == IF S = {} THEN <<>> ELSE descFrom(S, MaxOf(S))

\* sort.Strings
SortStrings(S) == IF S = {} THEN <<>> ELSE ascFrom(S, MinOf(S))

\* a key filter that lets a field named err through
ExtraKeysWithErr(e) == SortStrings(DOMAIN e.Extra \ (Reserved \ {serr}))

\* the keys of Extra that are written, in the order they are written
ExtraKeys(e) == SortStrings(DOMAIN e.Extra \ Reserved)

\* the members MarshalJSON writes, as [k, val], given the sorted keys
membersOf(e, keys) ==
  <<[k |-> sts, val |-> StrV(e.Ts)], [k |-> slv, val |-> StrV(e.Lv)],
    [k |-> scaller, val |-> StrV(e.Caller)], [k |-> smsg, val |-> e.Msg]>>
  \o [i \in 1..Len(keys) |-> [k |-> keys[i], val |-> e.Extra[keys[i]]]]
  \o (IF e.Err # Nil THEN <<[k |-> serr, val |-> e.Err]>> ELSE <<>>)

\* the outcome of encoding the members kvs
marshalAll(kvs) ==
  IF \A i \in 1..Len(kvs) : Marshalable(kvs[i].val)
  THEN [b |-> kvs, err |-> "nil"]
  ELSE [b |-> <<>>, err |-> "json: unsupported type"]

\* orderedEntry.MarshalJSON: the members written, or the error
MarshalJSON(e) == marshalAll(membersOf(e, ExtraKeys(e)))

smarshalfailed == <<"m", "a", "r", "s", "h", "a", "l", " ", "l", "o", "g", " ",
                    "f", "a", "i", "l", "e", "d">>

\* a branch that writes what json.Marshal returned, also when it failed
lineAsReturned(r, caller) == r.b

\* the line written once json.Marshal has yielded r
lineOrDiagnostic(r, caller) ==
  IF r.err # "nil"
  THEN <<[k |-> sts, val |-> StrV(Now)], [k |-> slv, val |-> StrV(sERROR)],
         [k |-> scaller, val |-> StrV(caller)],
         [k |-> smsg, val |-> StrV(smarshalfailed)],
         [k |-> serr, val |-> StrV(<<"j", "s", "o", "n">>)]>>
  ELSE r.b

\* the line of the JSON branch of logWithCaller
jsonLine(lv, caller, args) ==
  lineOrDiagnostic(MarshalJSON(buildJSONEntry(lv, caller, args)), caller)

KeysOf(line) == [i \in 1..Len(line) |-> line[i].k]

\* ------------------------------------------------------------------------
\* Text output
\* ------------------------------------------------------------------------
RECURSIVE Escape(_)
Escape(s) ==
  IF s = <<>> THEN <<>>
  ELSE IF Head(s) = "\"" THEN <<"\\", "\"">> \o Escape(Tail(s))
  ELSE <<Head(s)>> \o Escape(Tail(s))

mustQuote(s) == <<"\"">> \o Escape(s) \o <<"\"">>

\* fmt.Sprint of one value; the operands of a list are separated by spaces
RECURSIVE Sprint(_)
RECURSIVE SprintElems(_)
RECURSIVE SprintEntries(_)
Sprint(x) ==
  CASE x.t \in {"str", "int", "err", "json"} -> x.v
    [] x.t = "list" -> <<"[">> \o SprintElems(x.m) \o <<"]">>
    [] x.t = "map" -> <<"m", "a", "p", "[">> \o SprintEntries(x.m) \o <<"]">>
    [] OTHER -> <<"0", "x", "c", "0">>
SprintElems(xs) ==
  IF xs = <<>> THEN <<>>
  ELSE Sprint(Head(xs))
       \o (IF Len(xs) > 1 THEN <<" ">> ELSE <<>>) \o SprintElems(Tail(xs))
SprintEntries(es) ==
  IF es = <<>> THEN <<>>
  ELSE Head(es).k \o <<":">> \o Sprint(Head(es).val)
       \o (IF Len(es) > 1 THEN <<" ">> ELSE <<>>) \o SprintEntries(Tail(es))

\* a formatter that writes every string as it is
formatTextValueBare(x) ==
  CASE x.t \in {"str", "err"} -> x.v
    [] OTHER -> Sprint(x)

formatTextValue(x) ==
  CASE x.t = "str" -> IF JSONValid(TrimSpace(x.v)) THEN x.v ELSE mustQuote(x.v)
    [] x.t = "err" -> mustQuote(x.v)
    [] OTHER -> Sprint(x)

\* the orders in which a range over a map with key set S can visit it
Orders(S) == {o \in [1..Cardinality(S) -> S] : Range(o) = S}

RECURSIVE textFields(_, _)
textFields(f, order) ==
  IF order = <<>> THEN <<>>
  ELSE <<" ">> \o Head(order) \o <<"=">> \o formatTextValue(f[Head(order)])
       \o textFields(f, Tail(order))

RECURSIVE textData(_)
textData(data) ==
  IF data = <<>> THEN <<>>
  ELSE <<" ", "d", "a", "t", "a", "=">> \o Head(data) \o textData(Tail(data))

\* buildTextLine once parseArgs has yielded p
textOf(lv, caller, p, order) ==
  Now \o <<" ">> \o LevelString(lv) \o <<" ">> \o caller \o <<" ">>
  \o Sprint(p.msg)
  \o textFields(p.fields, order)
  \o (IF p.errField # Nil
      THEN <<" ", "e", "r", "r", "=">> \o formatTextValue(StrV(p.errField.v))
      ELSE <<>>)
  \o textData(p.data)
  \o (IF Len(p.extra) > 0
      THEN <<" ", "a", "r", "g", "s", "=">> \o formatTextValue(ListV(p.extra))
      ELSE <<>>)

\* order is the order in which the range over fields visits the keys
buildTextLine(lv, caller, args, order) ==
  textOf(lv, caller, parseArgs(args), order)

\* ------------------------------------------------------------------------
\* The level filter and the log call
\* ------------------------------------------------------------------------
\* a filter that also hides the threshold level itself
enabledAbove(lv, min) == lv > min

enabled(lv, min) == lv >= min

\* what logWithCaller writes under configuration c, and to which writers
lineOf(c, lv, args, order) ==
  IF c.fmt = JSON
  THEN [to |-> c.writer, fmt |-> JSON,
        json |-> jsonLine(lv, resolveCaller, args), text |-> <<>>]
  ELSE [to |-> c.writer, fmt |-> TEXT, json |-> <<>>,
        text |-> buildTextLine(lv, resolveCaller, args, order)]

\* the key sets whose visiting order matters: those of the text format
fieldKeys(c, args) ==
  IF c.fmt = JSON THEN {} ELSE DOMAIN parseArgs(args).fields

\* logWithCaller on configuration c: a call below the threshold returns at
\* once; any other writes one line through the active writer
logWithCaller(c, lv, args) ==
  IF ~enabled(lv, c.level)
  THEN sink' = <<>>
  ELSE \E order \in Orders(fieldKeys(c, args)) :
         sink' = <<lineOf(c, lv, args, order)>>

\* the lines a log call of the package writes under configuration c
linesOf(c, lv, args, order) ==
  IF ~enabled(lv, c.level) THEN <<>> ELSE <<lineOf(c, lv, args, order)>>

\* the lines a log call of the Logger writes under its configuration c
Logger_linesOf(c, lv, args, order) ==
  IF ~enabled(lv, c.level) THEN <<>> ELSE <<lineOf(c, lv, args, order)>>

\* ------------------------------------------------------------------------
\* Inputs
\* ------------------------------------------------------------------------
sbad == <<"b", "a", "d">>

LevelNames ==
  {sDEBUG, <<"d", "e", "b", "u", "g">>, sINFO,
   <<" ", "W", "a", "r", "n", "i", "n", "g", " ">>, sERROR, <<>>, sbad}

FmtNames == {<<>>, sjson, <<"T", "E", "X", "T">>, splain, sbad}

Tokens == {sstdout, sstderr, <<" ", "F", "i", "l", "e">>, sbad, <<>>}

RECURSIVE Join(_)
Join(ts) ==
  IF Len(ts) = 1 THEN ts[1] ELSE ts[1] \o <<"+">> \o Join(Tail(ts))

\* the generated specs, and some fixed ones: blank, the README's
\* "stderr+file", an unknown token after a known one, a file token with a
\* stream, separators only
OutSpecs ==
  {<<" ">>, sfile, Join(<<sstderr, sfile>>), Join(<<sstdout, sbad>>),
   Join(<<sstdout, <<" ", "F", "i", "l", "e">>>>), <<"+">>} \cup
  UNION {{Join(ts) : ts \in [1..n -> Tokens]} : n \in 1..MaxTokens}

Paths == {<<>>, <<" ">>, <<" ", "a">>}

\* the values of the four environment variables, and of the Options of New
EnvLevels == {sDEBUG, sbad}
EnvFmts == {stext, sbad}
EnvOuts == {<<>>, sfile, Join(<<sstdout, sfile>>), Join(<<sstdout, sbad>>)}
EnvFiles == {<<>>, <<"a">>}

sm == <<"m">>
sk == <<"k">>
sboom == <<"b", "o", "o", "m">>

sv == <<"v">>

\* the argument lists of the log calls made while the configuration changes
LogArgs ==
  {<<>>, <<StrV(sm), StrV(sk), IntV(<<"1">>), ErrV(sboom)>>, <<StrV(sm), ChanV>>,
   <<StrV(sm), StrV(<<" ", "k", ":">>), StrV(sv)>>}

Op(op, in, ok, lv, args) ==
  [op |-> op, in |-> in, ok |-> ok, lv |-> lv, args |-> args]

\* ------------------------------------------------------------------------
\* Operations on the package-level logger
\* ------------------------------------------------------------------------
\* a setter of the package that leaves configuration r.c and returns r.err
setGlobal(r, op, in, ok) ==
  /\ Opens(r.c) \/ ok
  /\ cfg' = r.c
  /\ ret' = r.err
  /\ last' = Op(op, in, ok, INFO, <<>>)
  /\ UNCHANGED <<l, twin, files, pc>> /\ sink' = <<>>

\* a log call of the package at level lv
logGlobal(lv, args, op, in) ==
  /\ logWithCaller(cfg, lv, args)
  /\ ret' = "nil"
  /\ last' = Op(op, in, TRUE, lv, args)
  /\ UNCHANGED <<cfg, l, twin, files, pc>>

ReloadFromEnv(envLevel, envFmt, envOut, envFile, ok) ==
  /\ ~l.made
  /\ setGlobal(doReloadFromEnv(cfg, envLevel, envFmt, envOut, envFile, ok),
               "ReloadFromEnv", <<envLevel, envFmt, envOut, envFile>>, ok)

SetLogLevel(level) ==
  /\ ~l.made
  /\ setGlobal(doSetLogLevel(cfg, level), "SetLogLevel", <<level>>, TRUE)

SetLogFmt(fmtStr) ==
  /\ ~l.made
  /\ setGlobal(doSetLogFmt(cfg, fmtStr), "SetLogFmt", <<fmtStr>>, TRUE)

SetOutput(outputStr, ok) ==
  /\ ~l.made
  /\ setGlobal(doSetOutput(cfg, outputStr, ok), "SetOutput", <<outputStr>>, ok)

SetLogFile(path, ok) ==
  /\ ~l.made
  /\ setGlobal(doSetLogFile(cfg, path, ok), "SetLogFile", <<path>>, ok)

Debug(args) ==
  /\ ~l.made
  /\ logGlobal(DEBUG, args, "Debug", <<>>)

Info(args) ==
  /\ ~l.made
  /\ logGlobal(INFO, args, "Info", <<>>)

Warn(args) ==
  /\ ~l.made
  /\ logGlobal(WARN, args, "Warn", <<>>)

Error(args) ==
  /\ ~l.made
  /\ logGlobal(ERROR, args, "Error", <<>>)

\* the level Log logs at once parseLevel has yielded r: an unknown name
\* logs at INFO
levelOrInfo(r) == IF r.err # "nil" THEN INFO ELSE r.lv

\* Log(lvStr, args...)
Log(lvStr, args) ==
  /\ ~l.made
  /\ logGlobal(levelOrInfo(parseLevel(lvStr)), args, "Log", <<lvStr>>)

\* ------------------------------------------------------------------------
\* Operations on the Logger instance
\* ------------------------------------------------------------------------
\* a setter of the Logger that leaves configuration r.c and returns r.err
setLogger(r, op, in, ok) ==
  /\ Opens(r.c) \/ ok
  /\ l' = [l EXCEPT !.cfg = r.c]
  /\ ret' = r.err
  /\ last' = Op(op, in, ok, INFO, <<>>)
  /\ UNCHANGED <<cfg, twin, files, pc>> /\ sink' = <<>>

\* a log call of the Logger at level lv
logLogger(lv, args, op) ==
  /\ logWithCaller(l.cfg, lv, args)
  /\ ret' = "nil"
  /\ last' = Op(op, <<>>, TRUE, lv, args)
  /\ UNCHANGED <<cfg, l, twin, files, pc>>

Logger_SetLogLevel(level) ==
  /\ l.made
  /\ setLogger(Logger_doSetLogLevel(l.cfg, level),
               "SetLogLevel", <<level>>, TRUE)

Logger_SetLogFmt(fmtStr) ==
  /\ l.made
  /\ setLogger(Logger_doSetLogFmt(l.cfg, fmtStr), "SetLogFmt", <<fmtStr>>, TRUE)

Logger_SetOutput(out, ok) ==
  /\ l.made
  /\ setLogger(Logger_doSetOutput(l.cfg, out, ok), "SetOutput", <<out>>, ok)

Logger_SetLogFile(path, ok) ==
  /\ l.made
  /\ setLogger(Logger_doSetLogFile(l.cfg, path, ok), "SetLogFile", <<path>>, ok)

Logger_Debug(args) ==
  /\ l.made
  /\ logLogger(DEBUG, args, "Debug")

Logger_Info(args) ==
  /\ l.made
  /\ logLogger(INFO, args, "Info")

Logger_Warn(args) ==
  /\ l.made
  /\ logLogger(WARN, args, "Warn")

Logger_Error(args) ==
  /\ l.made
  /\ logLogger(ERROR, args, "Error")

\* ------------------------------------------------------------------------
\* Specification: a program drives either the package-level logger, set up
\* by init() from the environment, or one Logger made by New.
\* ------------------------------------------------------------------------
\* the package-level config after init() with an empty environment
EmptyEnvCfg == doReloadFromEnv(DefaultCfg, <<>>, <<>>, <<>>, <<>>, TRUE).c

\* the state after init() left r
startGlobal(r, in, ok) ==
  /\ Opens(r.c) \/ ok
  /\ cfg = r.c
  /\ l = NoLogger
  /\ ret = r.err
  /\ last = Op("init", in, ok, INFO, <<>>)

\* the state after New left r
startLogger(r, in, ok) ==
  /\ Opens(r.c) \/ ok
  /\ cfg = EmptyEnvCfg
  /\ l = [made |-> TRUE, cfg |-> r.c]
  /\ ret = r.err
  /\ last = Op("New", in, ok, INFO, <<>>)

InitGlobal ==
  \E envLevel \in EnvLevels, envFmt \in EnvFmts, envOut \in EnvOuts,
     envFile \in EnvFiles, ok \in BOOLEAN :
    startGlobal(doReloadFromEnv(DefaultCfg, envLevel, envFmt, envOut, envFile, ok),
                <<envLevel, envFmt, envOut, envFile>>, ok)

InitLogger ==
  \E level \in EnvLevels, fmtStr \in EnvFmts, out \in EnvOuts,
     file \in EnvFiles, ok \in BOOLEAN :
    startLogger(doNew(<<level, fmtStr, out, file>>, ok),
                <<level, fmtStr, out, file>>, ok)

Init ==
  /\ InitGlobal \/ InitLogger
  /\ sink = <<>>
  /\ twin = NoTwin /\ files = NoFiles /\ pc = Idle

Next ==
  \/ \E envLevel \in EnvLevels, envFmt \in EnvFmts, envOut \in EnvOuts,
        envFile \in EnvFiles, ok \in BOOLEAN :
       ReloadFromEnv(envLevel, envFmt, envOut, envFile, ok)
  \/ \E level \in LevelNames : SetLogLevel(level)
  \/ \E fmtStr \in FmtNames : SetLogFmt(fmtStr)
  \/ \E outputStr \in OutSpecs, ok \in BOOLEAN : SetOutput(outputStr, ok)
  \/ \E path \in Paths, ok \in BOOLEAN : SetLogFile(path, ok)
  \/ \E args \in LogArgs : Debug(args)
  \/ \E args \in LogArgs : Info(args)
  \/ \E args \in LogArgs : Warn(args)
  \/ \E args \in LogArgs : Error(args)
  \/ \E lvStr \in LevelNames, args \in LogArgs : Log(lvStr, args)
  \/ \E level \in LevelNames : Logger_SetLogLevel(level)
  \/ \E fmtStr \in FmtNames : Logger_SetLogFmt(fmtStr)
  \/ \E out \in OutSpecs, ok \in BOOLEAN : Logger_SetOutput(out, ok)
  \/ \E path \in Paths, ok \in BOOLEAN : Logger_SetLogFile(path, ok)
  \/ \E args \in LogArgs : Logger_Debug(args)
  \/ \E args \in LogArgs : Logger_Info(args)
  \/ \E args \in LogArgs : Logger_Warn(args)
  \/ \E args \in LogArgs : Logger_Error(args)

Spec == Init /\ [][Next]_vars

\* ------------------------------------------------------------------------
\* Specification of the argument classifier and the JSON encoder: one
\* argument list is drawn, and Info is called with it under the default
\* configuration (INFO, JSON, stderr).
\* ------------------------------------------------------------------------
sz == <<"z">>
s18 == <<"1", "8">>
sname == <<"n", "a", "m", "e">>
sage == <<"a", "g", "e">>
sJack == <<"J", "a", "c", "k">>

\* the values an argument after the message is drawn from
ArgValues ==
  {StrV(sz), StrV(<<" ", "a", ":">>), StrV(serr), StrV(s18),
   StrV(<<" ", "[", "]">>), IntV(<<"1">>), ErrV(sboom), ChanV,
   MapV(<<[k |-> <<"a", ":">>, val |-> IntV(<<"1">>)],
          [k |-> sz, val |-> StrV(s18)]>>)}

FreeLists ==
  UNION {{<<StrV(sm)>> \o r : r \in [1..n -> ArgValues]} : n \in 0..MaxRest}

\* string keys, reserved names among them, and values that are not JSON text
PairKeys == {sname, sage, <<"a", "r", "g", "s", "FWCOLON">>, serr, sts, slv,
             scaller, smsg}
PairValues == {StrV(sJack), IntV(s18)}

RECURSIVE Flatten(_)
Flatten(ps) ==
  IF ps = <<>> THEN <<>> ELSE <<StrV(ps[1][1]), ps[1][2]>> \o Flatten(Tail(ps))

PairLists ==
  UNION {{<<StrV(smsg)>> \o Flatten(ps) \o <<ErrV(sboom)>> :
            ps \in [1..n -> PairKeys \X PairValues]} : n \in 0..MaxPairs}

\* a field, a raw-data blob, two leftovers and a trailing error in one call
Scenarios ==
  {<<StrV(sm), StrV(sz), IntV(<<"1">>), StrV(s18), IntV(<<"1">>), IntV(<<"8">>),
     ErrV(sboom)>>,
   <<StrV(sm), StrV(sdata), IntV(<<"1">>), StrV(s18)>>}

ArgLists == FreeLists \cup PairLists \cup Scenarios

InitArgs ==
  /\ cfg = EmptyEnvCfg
  /\ l = NoLogger
  /\ ret = "nil"
  /\ sink = <<>>
  /\ twin = NoTwin /\ files = NoFiles /\ pc = Idle
  /\ \E args \in ArgLists : last = Op("args", <<>>, TRUE, INFO, args)

NextArgs == last.op = "args" /\ Info(last.args)

SpecArgs == InitArgs /\ [][NextArgs]_vars

\* ------------------------------------------------------------------------
\* Specification of the two shapes side by side: the package-level logger
\* after init() with an empty environment, and a Logger made by New with
\* empty Options, are given the same calls with the same inputs and the same
\* outcomes of os.OpenFile.  ret and sink are the package's, twin the
\* Logger's.
\* ------------------------------------------------------------------------
EmptyOptions == <<<<>>, <<>>, <<>>, <<>>>>

\* the state after init() left r and New left q
startBoth(r, q) ==
  /\ cfg = r.c
  /\ ret = r.err
  /\ l = [made |-> TRUE, cfg |-> q.c]
  /\ twin = [ret |-> q.err, sink |-> <<>>]
  /\ last = Op("init", EmptyOptions, TRUE, INFO, <<>>)
  /\ sink = <<>>
  /\ files = NoFiles /\ pc = Idle

InitBoth ==
  startBoth(doReloadFromEnv(DefaultCfg, <<>>, <<>>, <<>>, <<>>, TRUE),
            doNew(EmptyOptions, TRUE))

\* the same setter on both: r is what the package's leaves, q the Logger's
setBoth(r, q, op, in, ok) ==
  /\ Opens(r.c) \/ Opens(q.c) \/ ok
  /\ cfg' = r.c
  /\ ret' = r.err
  /\ l' = [l EXCEPT !.cfg = q.c]
  /\ twin' = [ret |-> q.err, sink |-> <<>>]
  /\ last' = Op(op, in, ok, INFO, <<>>)
  /\ sink' = <<>>
  /\ UNCHANGED <<files, pc>>

\* the same log call on both
logBoth(lv, args, op) ==
  /\ \E order \in Orders(fieldKeys(cfg, args)) :
       sink' = linesOf(cfg, lv, args, order)
  /\ \E order \in Orders(fieldKeys(l.cfg, args)) :
       twin' = [ret |-> "nil", sink |-> Logger_linesOf(l.cfg, lv, args, order)]
  /\ ret' = "nil"
  /\ last' = Op(op, <<>>, TRUE, lv, args)
  /\ UNCHANGED <<cfg, l, files, pc>>

Both_SetLogLevel(level) ==
  /\ l.made
  /\ setBoth(doSetLogLevel(cfg, level), Logger_doSetLogLevel(l.cfg, level),
             "SetLogLevel", <<level>>, TRUE)

Both_SetLogFmt(fmtStr) ==
  /\ l.made
  /\ setBoth(doSetLogFmt(cfg, fmtStr), Logger_doSetLogFmt(l.cfg, fmtStr),
             "SetLogFmt", <<fmtStr>>, TRUE)

Both_SetOutput(out, ok) ==
  /\ l.made
  /\ setBoth(doSetOutput(cfg, out, ok), Logger_doSetOutput(l.cfg, out, ok),
             "SetOutput", <<out>>, ok)

Both_SetLogFile(path, ok) ==
  /\ l.made
  /\ setBoth(doSetLogFile(cfg, path, ok), Logger_doSetLogFile(l.cfg, path, ok),
             "SetLogFile", <<path>>, ok)

Both_Debug(args) ==
  /\ l.made
  /\ logBoth(DEBUG, args, "Debug")

Both_Info(args) ==
  /\ l.made
  /\ logBoth(INFO, args, "Info")

Both_Warn(args) ==
  /\ l.made
  /\ logBoth(WARN, args, "Warn")

Both_Error(args) ==
  /\ l.made
  /\ logBoth(ERROR, args, "Error")

NextBoth ==
  \/ \E level \in LevelNames : Both_SetLogLevel(level)
  \/ \E fmtStr \in FmtNames : Both_SetLogFmt(fmtStr)
  \/ \E out \in OutSpecs, ok \in BOOLEAN : Both_SetOutput(out, ok)
  \/ \E path \in Paths, ok \in BOOLEAN : Both_SetLogFile(path, ok)
  \/ \E args \in LogArgs : Both_Debug(args)
  \/ \E args \in LogArgs : Both_Info(args)
  \/ \E args \in LogArgs : Both_Warn(args)
  \/ \E args \in LogArgs : Both_Error(args)

SpecBoth == InitBoth /\ [][NextBoth]_vars

\* ------------------------------------------------------------------------
\* Specification of the file handles under concurrent calls.  files.closes
\* counts, for each handle opened so far, how often it was closed; files.own
\* is the handle the registered closer captures and files.out the handle
\* that is a member of the writer installed in the log.Logger (0 for none).
\* A setter that rebuilds takes the lock, stores its input and closes the
\* old handle in one step, and opens the file, installs the new writer and
\* releases the lock in a second one.  A log call takes its snapshot under
\* the read lock in one step and writes, without the lock, in a second one.
\* ------------------------------------------------------------------------
MaxOpens == 2      \* file handles opened in one behaviour

\* a rebuild that forgets the old handle without closing it
closeOldLeak(c, fs) == [fs EXCEPT !.own = 0]

\* the start of the rebuild: the registered closer is called and dropped
closeOld(c, fs) ==
  IF c.closer
  THEN [fs EXCEPT !.closes[fs.own] = @ + 1, !.own = 0]
  ELSE fs

\* the rest of the rebuild, which left configuration c: the handle of the
\* file it opened is captured by the closer and is a member of the writer
openNew(c, fs) ==
  IF c.closer
  THEN [closes |-> Append(fs.closes, 0), own |-> Len(fs.closes) + 1,
        out |-> Len(fs.closes) + 1]
  ELSE [fs EXCEPT !.own = 0, !.out = 0]

\* the handle the start of the rebuild closes
closing(c, fs) == IF c.closer THEN fs.own ELSE 0

\* the lock is taken by a setter that will leave r: its input is stored,
\* the old handle is closed, the old writer stays installed
lockAndClose(r, op, in, ok) ==
  /\ pc.set = "idle"
  /\ Len(files.closes) < MaxOpens
  /\ Opens(r.c) \/ ok
  /\ files' = closeOld(Active, files)
  /\ pc' = [pc EXCEPT !.set = "rebuild", !.r = r, !.op = op, !.in = in,
                       !.ok = ok, !.closed = closing(Active, files)]
  /\ last' = Op(op, in, ok, INFO, <<>>)
  /\ sink' = <<>>
  /\ UNCHANGED <<ret, twin>>

\* the configuration between the two steps of a setter that will leave c
halfway(c) == [c EXCEPT !.writer = Active.writer, !.closer = FALSE]

\* the setters that do not rebuild take the lock for their assignment
Files_SetLogLevel(level) ==
  /\ pc.set = "idle"
  /\ SetLogLevel(level)

Files_SetLogFmt(fmtStr) ==
  /\ pc.set = "idle"
  /\ SetLogFmt(fmtStr)

Files_Logger_SetLogLevel(level) ==
  /\ pc.set = "idle"
  /\ Logger_SetLogLevel(level)

Files_Logger_SetLogFmt(fmtStr) ==
  /\ pc.set = "idle"
  /\ Logger_SetLogFmt(fmtStr)

Files_ReloadFromEnv(envLevel, envFmt, envOut, envFile, ok) ==
  /\ ~l.made
  /\ lockAndClose(doReloadFromEnv(cfg, envLevel, envFmt, envOut, envFile, ok),
                  "ReloadFromEnv", <<envLevel, envFmt, envOut, envFile>>, ok)
  /\ cfg' = halfway(doReloadFromEnv(cfg, envLevel, envFmt, envOut, envFile, ok).c)
  /\ UNCHANGED l

Files_SetOutput(outputStr, ok) ==
  /\ ~l.made
  /\ lockAndClose(doSetOutput(cfg, outputStr, ok), "SetOutput", <<outputStr>>, ok)
  /\ cfg' = halfway(doSetOutput(cfg, outputStr, ok).c)
  /\ UNCHANGED l

Files_SetLogFile(path, ok) ==
  /\ ~l.made
  /\ lockAndClose(doSetLogFile(cfg, path, ok), "SetLogFile", <<path>>, ok)
  /\ cfg' = halfway(doSetLogFile(cfg, path, ok).c)
  /\ UNCHANGED l

Files_Logger_SetOutput(out, ok) ==
  /\ l.made
  /\ lockAndClose(Logger_doSetOutput(l.cfg, out, ok), "SetOutput", <<out>>, ok)
  /\ l' = [l EXCEPT !.cfg = halfway(Logger_doSetOutput(l.cfg, out, ok).c)]
  /\ UNCHANGED cfg

Files_Logger_SetLogFile(path, ok) ==
  /\ l.made
  /\ lockAndClose(Logger_doSetLogFile(l.cfg, path, ok), "SetLogFile", <<path>>, ok)
  /\ l' = [l EXCEPT !.cfg = halfway(Logger_doSetLogFile(l.cfg, path, ok).c)]
  /\ UNCHANGED cfg

\* the second step of a setter: the file is opened, the new writer is
\* stored and installed, the lock is released and the setter returns
installed(op) ==
  /\ pc.set = "rebuild"
  /\ files' = openNew(pc.r.c, files)
  /\ ret' = pc.r.err
  /\ pc' = [pc EXCEPT !.set = "idle", !.closed = 0]
  /\ last' = Op(pc.op, pc.in, pc.ok, INFO, <<>>)
  /\ sink' = <<>>
  /\ UNCHANGED twin

Files_Install ==
  /\ ~l.made
  /\ installed(pc.op)
  /\ cfg' = pc.r.c
  /\ UNCHANGED l

Files_Logger_Install ==
  /\ l.made
  /\ installed(pc.op)
  /\ l' = [l EXCEPT !.cfg = pc.r.c]
  /\ UNCHANGED cfg

\* Logger.Close, under the lock: the closer is called and dropped; the
\* writer is left as it is
Files_Logger_Close ==
  /\ l.made
  /\ pc.set = "idle"
  /\ files' = closeOld(l.cfg, files)
  /\ l' = [l EXCEPT !.cfg.closer = FALSE]
  /\ ret' = "nil"
  /\ last' = Op("Close", <<>>, TRUE, INFO, <<>>)
  /\ sink' = <<>>
  /\ UNCHANGED <<cfg, twin, pc>>

\* the first step of a log call at level lv: the snapshot under the read
\* lock and the level filter
Files_Filter(lv) ==
  /\ pc.set = "idle"
  /\ pc.log = "idle"
  /\ pc' = [pc EXCEPT !.log = IF enabled(lv, Active.level) THEN "passed" ELSE "idle"]
  /\ last' = Op("filter", <<>>, TRUE, lv, <<>>)
  /\ sink' = <<>>
  /\ ret' = "nil"
  /\ UNCHANGED <<cfg, l, twin, files>>

\* the members of the fan-out writer ws that take a line: io.MultiWriter
\* writes to its members in order and stops at the first that fails, which
\* the file does once its handle is closed
Reached(ws, fs) ==
  IF fs.out # 0 /\ fs.closes[fs.out] > 0
  THEN SelectSeq(ws, LAMBDA w : w # "file")
  ELSE ws

\* the second step of a log call: the line goes to the writer installed in
\* the log.Logger at this moment
Files_Write ==
  /\ pc.log = "passed"
  /\ sink' = <<[to |-> Active.writer, handle |-> files.out,
                reached |-> Reached(Active.writer, files),
                closedBy |-> pc.closed]>>
  /\ pc' = [pc EXCEPT !.log = "idle"]
  /\ last' = Op("write", <<>>, TRUE, last.lv, <<>>)
  /\ ret' = "nil"
  /\ UNCHANGED <<cfg, l, twin, files>>

\* the state after init() or New left r
startFiles(r) ==
  /\ files = openNew(r.c, NoFiles)
  /\ sink = <<>>
  /\ twin = NoTwin
  /\ pc = Idle

InitFiles ==
  \/ \E envLevel \in EnvLevels, envOut \in EnvOuts, envFile \in EnvFiles,
        ok \in BOOLEAN :
       /\ startGlobal(doReloadFromEnv(DefaultCfg, envLevel, <<>>, envOut, envFile, ok),
                      <<envLevel, <<>>, envOut, envFile>>, ok)
       /\ startFiles(doReloadFromEnv(DefaultCfg, envLevel, <<>>, envOut, envFile, ok))
  \/ \E level \in EnvLevels, out \in EnvOuts, file \in EnvFiles,
        ok \in BOOLEAN :
       /\ startLogger(doNew(<<level, <<>>, out, file>>, ok),
                      <<level, <<>>, out, file>>, ok)
       /\ startFiles(doNew(<<level, <<>>, out, file>>, ok))

NextFiles ==
  \/ \E level \in EnvLevels : Files_SetLogLevel(level)
  \/ \E fmtStr \in EnvFmts : Files_SetLogFmt(fmtStr)
  \/ \E level \in EnvLevels : Files_Logger_SetLogLevel(level)
  \/ \E fmtStr \in EnvFmts : Files_Logger_SetLogFmt(fmtStr)
  \/ \E envOut \in EnvOuts, envFile \in EnvFiles, ok \in BOOLEAN :
       Files_ReloadFromEnv(sDEBUG, <<>>, envOut, envFile, ok)
  \/ \E outputStr \in EnvOuts, ok \in BOOLEAN : Files_SetOutput(outputStr, ok)
  \/ \E path \in EnvFiles, ok \in BOOLEAN : Files_SetLogFile(path, ok)
  \/ \E out \in EnvOuts, ok \in BOOLEAN : Files_Logger_SetOutput(out, ok)
  \/ \E path \in EnvFiles, ok \in BOOLEAN : Files_Logger_SetLogFile(path, ok)
  \/ Files_Install
  \/ Files_Logger_Install
  \/ Files_Logger_Close
  \/ \E lv \in {DEBUG, WARN} : Files_Filter(lv)
  \/ Files_Write

SpecFiles == InitFiles /\ [][NextFiles]_vars

\* ------------------------------------------------------------------------
\* Specification of the call-site resolver.  A function name is the
\* sequence of its parts (import path, "/", package, ".", function), so
\* that HasPrefix, HasSuffix and Contains are computed on it; a file is the
\* sequence of its path segments.  A frame also tells whose code it is:
\* "component" for this package, "plumbing" for the runtime and the log
\* package, "caller" for any other; the resolver does not read that.  One
\* goroutine stack is drawn, innermost frame first, and resolveCaller runs
\* on it.
\* ------------------------------------------------------------------------
MaxPCs == 32       \* make([]uintptr, 32)
MaxFrames == 3     \* frames between the entry point and the runtime's

HasPrefix(s, t) == Len(t) <= Len(s) /\ SubSeq(s, 1, Len(t)) = t

HasSuffix(s, t) ==
  Len(t) <= Len(s) /\ SubSeq(s, Len(s) - Len(t) + 1, Len(s)) = t

Contains(s, t) ==
  \E i \in 1..(Len(s) - Len(t) + 1) : SubSeq(s, i, i + Len(t) - 1) = t

\* filepath.Base
Base(file) == IF file = <<>> THEN "." ELSE file[Len(file)]

\* runtime.Callers(skip, pcs) and runtime.CallersFrames: the frames of the
\* stack after the first skip, as many as pcs holds
Callers(skip, stack) ==
  IF Len(stack) <= skip THEN <<>>
  ELSE SubSeq(stack, skip + 1,
              IF Len(stack) - skip > MaxPCs THEN skip + MaxPCs ELSE Len(stack))

\* the three tests of the loop on the function name fn
skipsRuntime(fn) ==
  HasPrefix(fn, <<"runtime", ".">>) \/ HasPrefix(fn, <<"log", ".">>)
skipsThis(fn) ==
  \/ Contains(fn, <<"github.com/Brian44913", "/", "logging", ".">>)
  \/ HasSuffix(fn, <<"/", "logging", ".", "Info">>)
skipsLogging(fn) == Contains(fn, <<"/", "logging", ".">>)

\* the loop over the frames: a skipped frame ends the walk when it is the
\* last one; the first frame not skipped is formatted as base:line
RECURSIVE walkFrames(_)
walkFrames(frames) ==
  IF skipsRuntime(Head(frames).fn) \/ skipsThis(Head(frames).fn)
     \/ skipsLogging(Head(frames).fn)
  THEN IF Len(frames) = 1 THEN <<"???", ":", 0>> ELSE walkFrames(Tail(frames))
  ELSE <<Base(Head(frames).file), ":", Head(frames).line>>

\* resolveCaller on a goroutine stack; with no frame left after the skip,
\* frames.Next yields the zero Frame, which no test skips
resolveCallerOn(stack) ==
  IF Callers(3, stack) = <<>> THEN <<Base(<<>>), ":", 0>>
  ELSE walkFrames(Callers(3, stack))

Frame(fn, file, line, owner) ==
  [fn |-> fn, file |-> file, line |-> line, owner |-> owner]

ThisPkg == <<"github.com/Brian44913", "/", "logging", ".">>
ThisFile == <<"logging", "logging.go">>

\* the frames every log call has below its entry point
fCallers == Frame(<<"runtime", ".", "Callers">>, <<"runtime", "extern.go">>, 331, "plumbing")
fResolve == Frame(ThisPkg \o <<"resolveCaller">>, ThisFile, 476, "component")
fLogWith == Frame(ThisPkg \o <<"logWithCaller">>, ThisFile, 522, "component")
Logger_fLogWith ==
  Frame(ThisPkg \o <<"(*Logger)", ".", "logWithCaller">>, ThisFile, 167, "component")

\* the stacks below the caller of each entry point
Entries ==
  {<<fCallers, fResolve, fLogWith, Frame(ThisPkg \o <<"Info">>, ThisFile, 454, "component")>>,
   <<fCallers, fResolve, fLogWith, Frame(ThisPkg \o <<"Log">>, ThisFile, 464, "component")>>,
   <<fCallers, fResolve, Logger_fLogWith,
     Frame(ThisPkg \o <<"(*Logger)", ".", "Warn">>, ThisFile, 154, "component")>>}

\* frames above the entry point: caller code in package main, in a package
\* of another module that is named logging and in one named blogging, a
\* frame of the log package, and a frame of this package
Above ==
  {Frame(<<"main", ".", "main">>, <<"app", "main.go">>, 12, "caller"),
   Frame(<<"example.com/app", "/", "logging", ".", "Wrap">>,
         <<"app", "logging", "wrap.go">>, 7, "caller"),
   Frame(<<"example.com/app", "/", "blogging", ".", "Run">>,
         <<"app", "blogging", "run.go">>, 9, "caller"),
   Frame(<<"log", ".", "(*Logger)", ".", "Output">>, <<"log", "log.go">>, 200, "plumbing"),
   Frame(ThisPkg \o <<"Error">>, ThisFile, 456, "component")}

\* the frames the runtime puts below every goroutine
Bottoms ==
  {<<Frame(<<"runtime", ".", "main">>, <<"runtime", "proc.go">>, 250, "plumbing"),
     Frame(<<"runtime", ".", "goexit">>, <<"runtime", "asm.s">>, 1, "plumbing")>>,
   <<Frame(<<"runtime", ".", "goexit">>, <<"runtime", "asm.s">>, 1, "plumbing")>>}

Stacks ==
  {e \o m \o b :
     e \in Entries, m \in UNION {[1..n -> Above] : n \in 0..MaxFrames},
     b \in Bottoms}

InitCaller ==
  /\ cfg = EmptyEnvCfg
  /\ l = NoLogger
  /\ ret = <<>>
  /\ sink = <<>>
  /\ twin = NoTwin /\ files = NoFiles /\ pc = Idle
  /\ \E stack \in Stacks : last = Op("stack", stack, TRUE, INFO, <<>>)

ResolveCaller ==
  /\ last.op = "stack"
  /\ ret' = resolveCallerOn(last.in)
  /\ last' = [last EXCEPT !.op = "resolveCaller"]
  /\ UNCHANGED <<cfg, l, sink, twin, files, pc>>

NextCaller == ResolveCaller

SpecCaller == InitCaller /\ [][NextCaller]_vars

\* ------------------------------------------------------------------------
\* Properties
\* ------------------------------------------------------------------------

LogOps == {"Debug", "Info", "Warn", "Error", "Log"}

\* the destination spec and the file path an operation was given
SpecIn == IF last.op = "SetOutput" THEN last.in[1] ELSE last.in[3]
TakesSpec == last.op \in {"init", "New", "ReloadFromEnv", "SetOutput"}

KnownTokens == {sstdout, sstderr, sfile, <<>>}
PartsOf(s) == Range(SplitPlus(TrimSpace(s), <<>>))
TokensOf(s) == {ToLower(TrimSpace(p)) : p \in PartsOf(s)}
DestOf(tok) ==
  IF tok = sstdout THEN outStdout ELSE IF tok = sstderr THEN outStderr ELSE outFile

\* C1: a log call at level L under threshold T writes a line if and only if
\* L >= T; a call below the threshold writes nothing and leaves the
\* configuration as it was.
C1_LevelFilter ==
  [][last'.op \in LogOps =>
       /\ (Len(sink') = 1) <=> (last'.lv >= Active.level)
       /\ Len(sink') <= 1
       /\ last'.lv < Active.level => (sink' = <<>> /\ cfg' = cfg /\ l' = l)
       /\ (Active.level = INFO /\ last'.lv = DEBUG) => sink' = <<>>
       /\ (Active.level = INFO /\ last'.lv \in {INFO, WARN, ERROR})
            => Len(sink') = 1]_vars

\* a call at the threshold itself (WARN under WARN), through Log, wrote a line
C1_Witness ==
  /\ last.op = "Log" /\ last.lv = WARN /\ Active.level = WARN
  /\ Len(sink) = 1

\* the keys of the line the last call wrote, and the part of them between
\* msg and the end
LineKeys == KeysOf(sink[1].json)
Classified == parseArgs(last.args)
Encodable ==
  \A i \in 1..Len(last.args) : Marshalable(last.args[i])
Called == last.op = "Info" /\ Len(sink) = 1 /\ sink[1].fmt = JSON

Ascending(ks) == \A i \in 1..(Len(ks) - 1) : StrLess(ks[i], ks[i + 1])
Count(ks, k) == Cardinality({i \in 1..Len(ks) : ks[i] = k})
FixedKeys == <<sts, slv, scaller, smsg>>
HasData == Len(Classified.data) >= 1
HasArgs == Len(Classified.extra) >= 1
HasErr == Classified.errField # Nil

PairsThenErr(rest) ==
  /\ Len(rest) % 2 = 1
  /\ rest[Len(rest)].t = "err"
  /\ \A i \in 1..(Len(rest) - 1) :
       /\ ~IsJSONText(rest[i])
       /\ i % 2 = 1 => rest[i].t = "str"

PassedKeys(rest) ==
  {normalizeKey(rest[i].v) : i \in {j \in 1..(Len(rest) - 1) : j % 2 = 1}}

C4_Fallback ==
  /\ Len(Active.writer) >= 1
  /\ (/\ outStdout \notin Active.output
      /\ outStderr \notin Active.output
      /\ (outFile \notin Active.output \/ Active.file = <<>> \/ ~Active.closer))
     => Active.writer = <<"stderr">>

\* only the file is selected, it has a path, and the open failed
C4_Witness ==
  /\ last.op = "SetLogFile" /\ ~last.ok
  /\ Active.output = {outFile} /\ Active.file # <<>>
  /\ Active.writer = <<"stderr">>

\* C5: an empty or blank destination spec selects the file alone if the
\* file path in effect is not empty, and stderr alone otherwise; in the
\* first case the active writer is the file alone if the open succeeds.
C5_EmptySpec ==
  (TakesSpec /\ TrimSpace(SpecIn) = <<>>) =>
    /\ Active.output = (IF Active.file # <<>> THEN {outFile} ELSE {outStderr})
    /\ (Active.file # <<>> /\ last.ok) => Active.writer = <<"file">>
    /\ Active.file = <<>> => Active.writer = <<"stderr">>

\* SetOutput(" ") after a path was stored: the file alone
C5_Witness ==
  /\ last.op = "SetOutput" /\ last.in = <<<<" ">>>> /\ last.ok
  /\ Active.file = <<"a">>
  /\ Active.output = {outFile} /\ Active.writer = <<"file">>

\* the spec names the file and only known tokens
NamesFile(s) ==
  /\ TrimSpace(s) # <<>>
  /\ sfile \in TokensOf(s)
  /\ TokensOf(s) \subseteq KnownTokens

StreamsOf(s) ==
  (IF sstdout \in TokensOf(s) THEN <<"stdout">> ELSE <<>>)
  \o (IF sstderr \in TokensOf(s) THEN <<"stderr">> ELSE <<>>)

C6_AfterSetOutput ==
  (last.op = "SetOutput" /\ Active.file = <<>> /\ NamesFile(last.in[1])) =>
    /\ ret # "nil"
    /\ Active.output = {DestOf(t) : t \in TokensOf(last.in[1]) \ {<<>>}}
    /\ Active.writer = (IF StreamsOf(last.in[1]) = <<>> THEN <<"stderr">>
                        ELSE StreamsOf(last.in[1]))

\* C6: SetOutput with a spec that names the file, while no path is stored,
\* returns an error, records the file with the other tokens of the spec and
\* leaves the other selected streams, or stderr alone, as the active
\* writer; a later SetLogFile with a path that opens makes the file a
\* member of the active writer, the destinations unchanged.
C6_FileWithoutPath ==
  [][/\ C6_AfterSetOutput'
     /\ (/\ last'.op = "SetLogFile" /\ outFile \in Active.output
         /\ TrimSpace(last'.in[1]) # <<>> /\ last'.ok)
        => (/\ "file" \in Range(Active'.writer)
            /\ Active'.output = Active.output
            /\ ret' = "nil")]_vars

\* SetOutput("stdout+ File") without a path: error, both recorded, stdout
\* alone active
C6_Witness ==
  /\ last.op = "SetOutput" /\ ret # "nil"
  /\ Active.file = <<>>
  /\ Active.output = {outStdout, outFile}
  /\ Active.writer = <<"stdout">>

AcceptedNames == {sDEBUG, sINFO, sWARN, sWARNING, sERROR}
LevelNamed(u) ==
  CASE u = sDEBUG -> DEBUG
    [] u = sINFO -> INFO
    [] u \in {sWARN, sWARNING} -> WARN
    [] u = sERROR -> ERROR
    [] OTHER -> INFO

\* C7 as stated: exactly the five names, compared without regard to case,
\* are accepted; every other name is an error and changes nothing.
C7_AsStated ==
  [][last'.op = "SetLogLevel" =>
       IF ToUpper(last'.in[1]) \in AcceptedNames
       THEN ret' = "nil" /\ Active'.level = LevelNamed(ToUpper(last'.in[1]))
       ELSE ret' # "nil" /\ Active' = Active]_vars

\* C7 (amended): the name is trimmed of surrounding white space and
\* compared without regard to case; the five names and the empty name
\* (which sets INFO) are accepted and change the level only; every other
\* name is an error and changes nothing.
C7_SetLogLevel ==
  [][last'.op = "SetLogLevel" =>
       LET u == ToUpper(TrimSpace(last'.in[1])) IN
       IF u \in AcceptedNames \cup {<<>>}
       THEN /\ ret' = "nil"
            /\ Active' = [Active EXCEPT !.level = LevelNamed(u)]
       ELSE ret' # "nil" /\ Active' = Active]_vars

\* SetLogLevel("") returned no error and the threshold is INFO
C7_Witness ==
  /\ last.op = "SetLogLevel" /\ last.in = <<<<>>>>
  /\ ret = "nil" /\ Active.level = INFO

\* C8: a destination spec with an unknown token yields an error, the
\* destination set {stderr} and stderr as the only active writer.
C8_UnknownToken ==
  (TakesSpec /\ TrimSpace(SpecIn) # <<>>
     /\ ~(TokensOf(SpecIn) \subseteq KnownTokens)) =>
    /\ ret # "nil"
    /\ Active.output = {outStderr}
    /\ Active.writer = <<"stderr">>

\* SetOutput("stdout+bad"): stdout is not kept
C8_Witness ==
  /\ last.op = "SetOutput" /\ last.in = <<Join(<<sstdout, sbad>>)>>
  /\ ret = "unknown GOLOG_OUTPUT part"
  /\ Active.output = {outStderr} /\ Active.writer = <<"stderr">>

\* the arguments after the message without the JSON-text strings
Remaining == SelectSeq(Tail(last.args), LAMBDA x : ~IsJSONText(x))

\* C9: an error is detached as the trailing error if and only if the
\* arguments that remain after the JSON-text strings are removed are not
\* empty, odd in number and end in an error; the line then ends in err.  An
\* error that ends an even number of remaining arguments is the value of
\* the pair its predecessor opens.
C9_TrailingError ==
  (Called /\ Len(last.args) >= 1) =>
    LET n == Len(Remaining)
        odd == n > 0 /\ n % 2 = 1 /\ Remaining[n].t = "err"
    IN /\ HasErr <=> odd
       /\ odd => Classified.errField = Remaining[n]
       /\ Encodable => ((LineKeys[Len(LineKeys)] = serr) <=> odd)
       /\ (n > 0 /\ n % 2 = 0 /\ Remaining[n].t = "err"
             /\ Remaining[n - 1].t = "str")
            => /\ normalizeKey(Remaining[n - 1].v) \in DOMAIN Classified.fields
               /\ Classified.fields[normalizeKey(Remaining[n - 1].v)] = Remaining[n]

\* Info(m, error, "18"): the error is followed by JSON text only and is
\* detached
C9_Witness ==
  /\ Called
  /\ last.args = <<StrV(sm), ErrV(sboom), StrV(s18)>>
  /\ LineKeys = FixedKeys \o <<sdata, serr>>

Setters == {"SetLogLevel", "SetLogFmt", "SetOutput", "SetLogFile"}

\* C10: a setter called a second time with the input of a first call that
\* returned no error, the file opening alike, leaves level, format,
\* destinations, path and active writer as the first call left them.
C10_Idempotent ==
  [][(/\ last.op \in Setters /\ ret = "nil"
      /\ last'.op = last.op /\ last'.in = last.in /\ last'.ok = last.ok)
     => (Active' = Active /\ ret' = "nil")]_vars

\* SetLogFile stored a path and the file, which was selected, is active
C10_Witness ==
  /\ last.op = "SetLogFile" /\ ret = "nil" /\ last.ok
  /\ Active.file = <<"a">> /\ outFile \in Active.output
  /\ "file" \in Range(Active.writer)

\* ------------------------------------------------------------------------
\* C11
\* ------------------------------------------------------------------------
EndsWith(s, t) ==
  Len(t) <= Len(s) /\ SubSeq(s, Len(s) - Len(t) + 1, Len(s)) = t

\* the last call was written as text at DEBUG under threshold DEBUG, and its
\* arguments after the message are a string key and a string value, neither
\* of them JSON text
KeyValueAtDebug ==
  /\ last.op \in LogOps /\ last.lv = DEBUG /\ Active.level = DEBUG
  /\ Len(sink) = 1 /\ sink[1].fmt = TEXT
  /\ Len(last.args) = 3
  /\ last.args[2].t = "str" /\ ~IsJSONText(last.args[2])
  /\ last.args[3].t = "str" /\ ~IsJSONText(last.args[3])

\* the second token of the line is DEBUG
LevelTokenIsDebug ==
  SubSeq(sink[1].text, Len(Now) + 1, Len(Now) + 7) = <<" ">> \o sDEBUG \o <<" ">>

\* C11 as stated: the text line of a DEBUG call with a key k and a plain
\* string v has the level token DEBUG and ends with k=v, the value text
\* following the equals sign as it was passed.
C11_AsStated ==
  KeyValueAtDebug =>
    /\ LevelTokenIsDebug
    /\ EndsWith(sink[1].text,
                normalizeKey(last.args[2].v) \o <<"=">> \o last.args[3].v)

\* C11: the text line of a DEBUG call under threshold DEBUG with a string
\* key k and a plain string v has the level token DEBUG and ends with the
\* normalised key, an equals sign and the value JSON-escaped between double
\* quotes: k="v".
C11_TextField ==
  KeyValueAtDebug =>
    /\ LevelTokenIsDebug
    /\ EndsWith(sink[1].text,
                <<" ">> \o normalizeKey(last.args[2].v) \o <<"=", "\"">>
                \o Escape(last.args[3].v) \o <<"\"">>)

C11_Witness ==
  /\ KeyValueAtDebug
  /\ last.op = "Debug"
  /\ EndsWith(sink[1].text, <<" ", "k", "=", "\"", "v", "\"">>)

\* ------------------------------------------------------------------------
\* C12
\* ------------------------------------------------------------------------
\* C12: driven by the same calls with the same inputs and the same outcomes
\* of opening the file, the package-level logger and the Logger return the
\* same error at each step, hold the same level, format, destination set,
\* file path, active writer and closer after each step, and write a line for
\* the same calls, to the same writers and, in JSON, with the same members.
C12_SameBehaviour ==
  /\ ret = twin.ret
  /\ cfg.level = l.cfg.level
  /\ cfg.fmt = l.cfg.fmt
  /\ cfg.output = l.cfg.output
  /\ cfg.file = l.cfg.file
  /\ cfg.writer = l.cfg.writer
  /\ cfg.closer = l.cfg.closer
  /\ Len(sink) = Len(twin.sink)
  /\ Len(sink) = 1 =>
       /\ sink[1].to = twin.sink[1].to
       /\ sink[1].fmt = twin.sink[1].fmt
       /\ sink[1].json = twin.sink[1].json

\* both returned the error of a file destination without a path, and both
\* fell back to stderr
C12_Witness ==
  /\ last.op = "SetLogFile"
  /\ ret # "nil" /\ twin.ret = ret
  /\ cfg.output = {outFile} /\ l.cfg.output = {outFile}
  /\ cfg.writer = <<"stderr">> /\ l.cfg.writer = <<"stderr">>

\* ------------------------------------------------------------------------
\* C13
\* ------------------------------------------------------------------------
\* the last operation was a log call in JSON format that passed the filter
PassedAsJSON ==
  last.op \in LogOps /\ Active.fmt = JSON /\ last.lv >= Active.level

\* json.Marshal fails on the record of the last call
EncodingFails ==
  MarshalJSON(buildJSONEntry(last.lv, resolveCaller, last.args)).err # "nil"

\* the members of the fixed-shape diagnostic line
IsDiagnostic(line) ==
  /\ KeysOf(line) = <<sts, slv, scaller, smsg, serr>>
  /\ line[2].val = StrV(sERROR)
  /\ line[3].val = StrV(resolveCaller)
  /\ line[4].val = StrV(smarshalfailed)
  /\ line[5].val.t = "str" /\ line[5].val.v # <<>>

\* the members of the encoded record of the last call
IsRecord(line) ==
  /\ SubSeq(KeysOf(line), 1, 4) = <<sts, slv, scaller, smsg>>
  /\ line[2].val = StrV(LevelString(last.lv))
  /\ line[4].val = parseJSONIfString(Classified.msg)
  /\ \A i \in 1..Len(line) : Marshalable(line[i].val)

\* C13: a JSON-format log call that passes the level filter returns normally
\* and writes exactly one line through the active writer: the encoded record
\* when encoding succeeds, and otherwise the diagnostic line with lv=ERROR,
\* msg="marshal log failed" and err set to the failure text.
C13_OneLine ==
  PassedAsJSON =>
    /\ Len(sink) = 1
    /\ ret = "nil"
    /\ sink[1].to = Active.writer
    /\ sink[1].fmt = JSON
    /\ IF EncodingFails THEN IsDiagnostic(sink[1].json) ELSE IsRecord(sink[1].json)

C13_Witness ==
  /\ PassedAsJSON /\ EncodingFails
  /\ last.op = "Warn" /\ l.made
  /\ last.args = <<StrV(sm), ChanV>>
  /\ sink[1].to = <<"stdout", "file">>
  /\ IsDiagnostic(sink[1].json)

\* ------------------------------------------------------------------------
\* C14
\* ------------------------------------------------------------------------
\* the writers the rebuild rule derives from destination set out and path
\* file when opening the file has outcome ok
Derived(out, file, ok) ==
  IF out \cap {outStdout, outStderr} = {}
     /\ ~(outFile \in out /\ TrimSpace(file) # <<>> /\ ok)
  THEN <<"stderr">>
  ELSE (IF outStdout \in out THEN <<"stdout">> ELSE <<>>)
       \o (IF outStderr \in out THEN <<"stderr">> ELSE <<>>)
       \o (IF outFile \in out /\ TrimSpace(file) # <<>> /\ ok
           THEN <<"file">> ELSE <<>>)

\* the file member of the installed writer, if there is one, is open
FileMemberOpen ==
  "file" \in Range(Active.writer) =>
    files.out # 0 /\ files.closes[files.out] = 0

\* C14 as stated: between operations the active writer is the one the
\* rebuild rule derives from the destination set and the path, a closer is
\* registered exactly if the file is a member of the active writer, and the
\* file member is never a handle that was closed.
C14_AsStated ==
  pc.set = "idle" =>
    /\ \E ok \in BOOLEAN :
         Active.writer = Derived(Active.output, Active.file, ok)
    /\ Active.closer <=> "file" \in Range(Active.writer)
    /\ FileMemberOpen

\* ------------------------------------------------------------------------
\* C15
\* ------------------------------------------------------------------------
OpenHandles == {i \in 1..Len(files.closes) : files.closes[i] = 0}

\* at most one handle is open, none was closed twice, and the open one is
\* the one the registered closer captures
HandlesOwned ==
  /\ Cardinality(OpenHandles) <= 1
  /\ \A i \in 1..Len(files.closes) : files.closes[i] <= 1
  /\ \A i \in OpenHandles : files.own = i /\ Active.closer

\* C15: at most one file handle of the configuration is open at any time,
\* also between the steps of concurrent calls; a handle is opened only when
\* every earlier one was closed, exactly once; no handle is closed twice;
\* after Close none is open, and a second Close changes nothing.
C15_HandleOwnership ==
  [][/\ HandlesOwned /\ HandlesOwned'
     /\ Len(files'.closes) > Len(files.closes) =>
          \A i \in 1..Len(files.closes) : files'.closes[i] = 1
     /\ last'.op = "Close" => OpenHandles' = {}
     /\ (last.op = "Close" /\ last'.op = "Close") =>
          (files' = files /\ l' = l /\ ret' = "nil")]_vars

\* a second handle was opened after the first was closed, and Close closed
\* it
C15_Witness ==
  /\ last.op = "Close"
  /\ files.closes = <<1, 1>>
  /\ ~l.cfg.closer

\* ------------------------------------------------------------------------
\* C16
\* ------------------------------------------------------------------------
\* C16 as stated: a log call that passed the filter and writes while a
\* rebuild is in progress never writes to the file handle that rebuild has
\* closed, and its line reaches at least one destination.
C16_AsStated ==
  (last.op = "write" /\ Len(sink) = 1 /\ sink[1].closedBy # 0) =>
    /\ sink[1].handle # sink[1].closedBy
    /\ sink[1].reached # <<>>

\* ------------------------------------------------------------------------
\* C17
\* ------------------------------------------------------------------------
\* the single-map shortcut applies to the last call
Shortcut == Len(last.args) = 2 /\ last.args[2].t = "map"

\* the arguments after the message that are JSON text, in order
JSONTexts == SelectSeq(Tail(last.args), LAMBDA x : IsJSONText(x))

\* the reduced list ends in an error that has no partner
ErrDetached ==
  /\ Len(Remaining) % 2 = 1
  /\ Remaining[Len(Remaining)].t = "err"

\* the reduced list without that error
Pairable ==
  IF ErrDetached THEN SubSeq(Remaining, 1, Len(Remaining) - 1) ELSE Remaining

\* the positions at which a pair starts, and those of them with a string key
PairStarts == {i \in 1..Len(Pairable) : i % 2 = 1 /\ i + 1 <= Len(Pairable)}
KeyedStarts == {i \in PairStarts : Pairable[i].t = "str"}

\* the positions left over: both members of a pair without a string key, and
\* the last element when it has no partner
LeftoverAt ==
  {i \in 1..Len(Pairable) :
     \/ i % 2 = 1 /\ i = Len(Pairable)
     \/ i % 2 = 1 /\ i \in PairStarts \ KeyedStarts
     \/ i % 2 = 0 /\ (i - 1) \in PairStarts \ KeyedStarts}

\* the elements of s at the positions I, from position i on, in order
RECURSIVE PickFrom(_, _, _)
PickFrom(s, I, i) ==
  IF i > Len(s) THEN <<>>
  ELSE (IF i \in I THEN <<s[i]>> ELSE <<>>) \o PickFrom(s, I, i + 1)

\* C17: unless the single-map shortcut applies, every string argument after
\* the message whose trimmed text is valid JSON is in the raw-data list, in
\* the original order and as its trimmed text, wherever it stood; the other
\* arguments keep their order, and the trailing error, the pairs and the
\* leftovers are those of that reduced list.
C17_DataFirst ==
  (last.op = "Info" /\ ~Shortcut) =>
    /\ Len(Classified.data) = Len(JSONTexts)
    /\ \A i \in 1..Len(JSONTexts) :
         Classified.data[i] = TrimSpace(JSONTexts[i].v)
    /\ Classified.errField =
         (IF ErrDetached THEN Remaining[Len(Remaining)] ELSE Nil)
    /\ DOMAIN Classified.fields =
         {normalizeKey(Pairable[i].v) : i \in KeyedStarts}
    /\ \A i \in KeyedStarts :
         (\A j \in KeyedStarts :
            j > i => normalizeKey(Pairable[j].v) # normalizeKey(Pairable[i].v))
         => Classified.fields[normalizeKey(Pairable[i].v)] = Pairable[i + 1]
    /\ Classified.extra = PickFrom(Pairable, LeftoverAt, 1)

\* a JSON text stood between a key and its value
C17_Witness ==
  /\ last.op = "Info"
  /\ last.args = <<StrV(sm), StrV(sz), StrV(s18), IntV(<<"1">>)>>
  /\ Classified.data = <<s18>>
  /\ Classified.fields[sz] = IntV(<<"1">>)
  /\ Classified.extra = <<>>

\* ------------------------------------------------------------------------
\* C18
\* ------------------------------------------------------------------------
\* 1 if a trailing error was detached, else 0
ErrCount == IF Classified.errField # Nil THEN 1 ELSE 0

\* C18 as stated: the number of elements after the message is twice the
\* number of field entries, plus the number of raw-data blobs, plus one for
\* a detached trailing error, plus the number of leftovers.
C18_AsStated ==
  last.op = "Info" =>
    Len(last.args) - 1 =
      2 * Cardinality(DOMAIN Classified.fields) + Len(Classified.data)
      + ErrCount + Len(Classified.extra)

\* C18: unless the single-map shortcut applies, the number of elements after
\* the message is twice the number of pairs with a string key, plus the
\* number of raw-data blobs, plus one for a detached trailing error, plus the
\* number of leftovers; the fields have one entry for each distinct
\* normalised key of those pairs, so a pair whose key repeats an earlier one
\* replaces its value.  Under the shortcut the fields have one entry for
\* each distinct normalised key of the map and nothing else is attributed.
C18_Conservation ==
  last.op = "Info" =>
    IF Shortcut
    THEN /\ DOMAIN Classified.fields =
              {normalizeKey(last.args[2].m[i].k) : i \in 1..Len(last.args[2].m)}
         /\ Classified.data = <<>>
         /\ Classified.extra = <<>>
         /\ Classified.errField = Nil
    ELSE /\ Len(last.args) - 1 =
              2 * Cardinality(KeyedStarts) + Len(Classified.data)
              + ErrCount + Len(Classified.extra)
         /\ Cardinality(DOMAIN Classified.fields) =
              Cardinality({normalizeKey(Pairable[i].v) : i \in KeyedStarts})

\* two pairs with the same key left one entry, holding the later value
C18_Witness ==
  /\ last.op = "Info"
  /\ last.args = <<StrV(smsg), StrV(sname), StrV(sJack), StrV(sname),
                   IntV(s18), ErrV(sboom)>>
  /\ DOMAIN Classified.fields = {sname}
  /\ Classified.fields[sname] = IntV(s18)
  /\ Classified.errField = ErrV(sboom)

\* ------------------------------------------------------------------------
\* C19
\* ------------------------------------------------------------------------
\* the frames above resolveCaller and logWithCaller that are caller code
CallerFrames ==
  SelectSeq(Callers(3, last.in), LAMBDA f : f.owner = "caller")

\* C19 as stated: resolveCaller returns base:line of the first frame above
\* the entry point that is neither this component's nor the runtime's or
\* the log package's, whatever the entry point, and ???:0 only when there
\* is no such frame; no frame of caller code is skipped.
C19_AsStated ==
  last.op = "resolveCaller" =>
    ret = IF CallerFrames = <<>> THEN <<"???", ":", 0>>
          ELSE <<Base(CallerFrames[1].file), ":", CallerFrames[1].line>>
====
